---- MODULE Spec2Model ----
(***************************************************************************)
(* Stripe payment failure monitor (src/index.js).                          *)
(*                                                                         *)
(* The model follows the Node.js event loop: one action is one turn of the *)
(* loop, that is the arrival of a request or the completion of an external *)
(* call (Stripe, Gmail, Airtable), together with every continuation that   *)
(* runs before the next external call is awaited: returning from an async  *)
(* function and resuming its awaiting caller are promise jobs of the same  *)
(* turn.  The result of an external call is chosen when it completes.      *)
(* Log messages are sequences: the template text followed by the           *)
(* interpolated values.  The timestamps read from the system clock (log    *)
(* entry, failedAt, test payment id) are not modelled.                     *)
(***************************************************************************)
EXTENDS Integers, Sequences, FiniteSets, TLC

\* ---------------------------------------------------------------- bounds
NumRequests == 2
MaxPrior == 23

\* ------------------------------------------------------ program constants
MaxLogs == 50
TestAmount == 2999
CentsPerUnit == 100

NULL == "null"

Requests == 1..NumRequests

EventTypes ==
  {"payment_intent.payment_failed", "charge.failed",
   "invoice.payment_failed", "customer.created"}

\* what stripe.customers.retrieve can resolve to
Customers ==
  {[email |-> "ann@example.com", name |-> "Ann"],
   [email |-> "ann@example.com", name |-> NULL],
   [email |-> NULL, name |-> NULL]}

\* event.data.object of an incoming event
PaymentIntents ==
  {[id |-> "pi_1", customer |-> NULL, amount |-> 1050, currency |-> "usd",
    last_payment_error |-> NULL],
   [id |-> "pi_2", customer |-> "cus_1", amount |-> 1050, currency |-> "usd",
    last_payment_error |-> "card_declined"]}

ObjectOf(type) ==
  IF type = "payment_intent.payment_failed" THEN PaymentIntents
  ELSE IF type = "charge.failed"
       THEN {[id |-> "ch_1"]}
       ELSE IF type = "invoice.payment_failed"
            THEN {[id |-> "in_1"]}
            ELSE {[id |-> "cus_1"]}

ToUpperCase(s) ==
  IF s = "usd" THEN "USD" ELSE s

\* JavaScript a || b on strings (NULL stands for undefined, null and "")
Or(a, b) ==
  IF a = NULL THEN b ELSE a

VARIABLES
  recentLogs,      \* the activity log, newest first
  pc,              \* per request: the external call its handler awaits
  kind,            \* per request: "webhook" or "test"
  event,           \* per request: <<>> or <<the verified event>>
  failureData,     \* per request: <<>> or <<the failure record>>
  emailSent,       \* per request: <<>> or <<result of sendGmailAlert>>
  airtableRecord,  \* per request: <<>> or <<result of updateAirtableRecord>>
  response,        \* per request: <<>> or <<the HTTP response sent>>
  gmailSends,      \* per request: messages handed to gmail.users.messages.send
  airtableCreates, \* per request: field sets handed to base(...).create
  appended,        \* history: every entry ever passed to addLog, oldest first
  reqLogs,         \* history: per request, the entries it appended
  trace            \* history: per request, the steps it has taken

vars ==
  <<recentLogs, pc, kind, event, failureData, emailSent, airtableRecord,
    response, gmailSends, airtableCreates, appended, reqLogs, trace>>

\* ------------------------------------------------------------------ addLog
LogEntry(message, type) ==
  [message |-> message, type |-> type]

\* faulty variant of addLog: the cut keeps the last MaxLogs entries (slice(-50))
addLogKeepsOldest(logs, entry) ==
  LET unshifted == <<entry>> \o logs
  IN  IF Len(unshifted) > MaxLogs
      THEN SubSeq(unshifted, 2, MaxLogs + 1)
      ELSE unshifted

addLog(logs, entry) ==
  LET unshifted == <<entry>> \o logs
  IN  IF Len(unshifted) > MaxLogs
      THEN SubSeq(unshifted, 1, MaxLogs)
      ELSE unshifted

RECURSIVE addLogs(_, _)
addLogs(logs, entries) ==
  IF entries = <<>> THEN logs
  ELSE addLogs(addLog(logs, Head(entries)), Tail(entries))

\* the segment of request r calls addLog once for each of entries, in order
Logged(r, entries) ==
  /\ recentLogs' = addLogs(recentLogs, entries)
  /\ appended' = appended \o entries
  /\ reqLogs' = [reqLogs EXCEPT ![r] = @ \o entries]

Stepped(r, steps) ==
  trace' = [trace EXCEPT ![r] = @ \o steps]

\* ------------------------------------------------------------ environment
\* process.env.ALERT_EMAIL (unset here, so the default address is used)
AlertEmailEnv == NULL

\* ---------------------------------------------------- messages and records
StartupEntries ==
  << LogEntry(<<"Stripe Payment Monitor started on port ", "3000">>, "info"),
     LogEntry(<<"Failed Payments table already exists">>, "info"),
     LogEntry(<<"Ready to monitor payment failures">>, "info") >>

ReceivedEntry(type) ==
  LogEntry(<<"Received webhook event: ", type>>, "info")

\* faulty variant of DispatchEntries: the charge branch interpolates the event type
DispatchEntriesWithType(ev) ==
  IF ev.type = "charge.failed"
  THEN << LogEntry(<<"Charge failed: ", ev.type>>, "info") >>
  ELSE IF ev.type = "invoice.payment_failed"
       THEN << LogEntry(<<"Invoice payment failed: ", ev.object.id>>, "info") >>
       ELSE << LogEntry(<<"Unhandled event type: ", ev.type>>, "warning") >>

\* the entries logged by the switch for an event that is not a failed
\* payment intent
DispatchEntries(ev) ==
  IF ev.type = "charge.failed"
  THEN << LogEntry(<<"Charge failed: ", ev.object.id>>, "info") >>
  ELSE IF ev.type = "invoice.payment_failed"
       THEN << LogEntry(<<"Invoice payment failed: ", ev.object.id>>, "info") >>
       ELSE << LogEntry(<<"Unhandled event type: ", ev.type>>, "warning") >>

UnknownCustomer ==
  [email |-> "Unknown", name |-> "Unknown Customer"]

BuildFailureData(paymentIntent, customer) ==
  [paymentId |-> paymentIntent.id,
   customerEmail |-> Or(customer.email, "Unknown"),
   customerName |-> Or(customer.name, Or(customer.email, "Unknown Customer")),
   amount |-> paymentIntent.amount,
   currency |-> paymentIntent.currency,
   failureReason |-> Or(paymentIntent.last_payment_error, "Unknown error")]

TestData ==
  [paymentId |-> "test_0",
   customerEmail |-> Or(AlertEmailEnv, "test@example.com"),
   customerName |-> "Test Customer",
   amount |-> TestAmount,
   currency |-> "usd",
   failureReason |-> "Test failure - manual test run"]

\* the message sendGmailAlert renders and hands to the Gmail API
EmailContent(fd) ==
  [subject |-> <<"Payment Failed Alert - ", fd.customerEmail>>,
   to |-> Or(AlertEmailEnv, "your-email@example.com"),
   paymentId |-> fd.paymentId,
   customer |-> <<fd.customerName, fd.customerEmail>>,
   amount |-> <<fd.amount, ToUpperCase(fd.currency)>>,
   failureReason |-> fd.failureReason,
   link |-> <<"https://dashboard.stripe.com/payments/", fd.paymentId>>]

\* the fields updateAirtableRecord hands to create; amount / 100 is kept as
\* whole units and remaining hundredths
AirtableFields(fd) ==
  [PaymentID |-> fd.paymentId,
   CustomerEmail |-> fd.customerEmail,
   CustomerName |-> fd.customerName,
   Amount |-> <<fd.amount \div CentsPerUnit, fd.amount % CentsPerUnit>>,
   Currency |-> ToUpperCase(fd.currency),
   FailureReason |-> fd.failureReason,
   Status |-> "Failed"]

\* -------------------------------------------------------------------- Init
RECURSIVE PriorEntries(_)
PriorEntries(k) ==
  IF k = 0 THEN StartupEntries
  ELSE PriorEntries(k - 1)
         \o << ReceivedEntry("customer.created"),
               LogEntry(<<"Unhandled event type: ", "customer.created">>, "warning") >>

\* The server has started and has already answered k webhook events of an
\* unhandled type, one after the other.
Init ==
  /\ \E k \in {0, MaxPrior} :
       /\ appended = PriorEntries(k)
       /\ recentLogs = addLogs(<<>>, PriorEntries(k))
  /\ pc = [r \in Requests |-> "idle"]
  /\ kind = [r \in Requests |-> "none"]
  /\ event = [r \in Requests |-> <<>>]
  /\ failureData = [r \in Requests |-> <<>>]
  /\ emailSent = [r \in Requests |-> <<>>]
  /\ airtableRecord = [r \in Requests |-> <<>>]
  /\ response = [r \in Requests |-> <<>>]
  /\ gmailSends = [r \in Requests |-> <<>>]
  /\ airtableCreates = [r \in Requests |-> <<>>]
  /\ reqLogs = [r \in Requests |-> <<>>]
  /\ trace = [r \in Requests |-> <<>>]

\* A request arrives; requests are numbered in the order of their arrival.
Arrives(r) ==
  /\ pc[r] = "idle"
  /\ \A q \in Requests : q < r => pc[q] # "idle"

Respond(r, status, body) ==
  /\ response' = [response EXCEPT ![r] = <<[status |-> status, body |-> body]>>]
  /\ pc' = [pc EXCEPT ![r] = "done"]

\* ------------------------------------------------- processFailedPayment
\* processFailedPayment from the point where the customer is known up to the
\* await inside sendGmailAlert (auth.getClient()); before are the log entries
\* and steps of the same turn that came first.
processFailedPayment(r, paymentIntent, customer, before, steps) ==
  LET fd == BuildFailureData(paymentIntent, customer)
  IN  /\ failureData' = [failureData EXCEPT ![r] = <<fd>>]
      /\ Logged(r, before \o
           << LogEntry(<<"Processing failed payment: ", fd.paymentId,
                         " for ", fd.customerEmail>>, "info") >>)
      /\ Stepped(r, steps \o <<"record_built", "email_call">>)
      /\ pc' = [pc EXCEPT ![r] = "getClient"]
      /\ UNCHANGED response

\* faulty variant of lookupFailed: processFailedPayment has no try/catch, the
\* rejection reaches the framework and the request fails
lookupFailedUncaught(r, message) ==
  /\ Logged(r, <<>>)
  /\ Stepped(r, <<"lookup_failed", "respond">>)
  /\ Respond(r, 500, [error |-> message])
  /\ UNCHANGED failureData

\* stripe.customers.retrieve rejects: the catch of processFailedPayment logs
\* the error, processFailedPayment returns and the handler acknowledges.
lookupFailed(r, message) ==
  /\ Logged(r, << LogEntry(<<"Error processing failed payment: ", message>>,
                           "error") >>)
  /\ Stepped(r, <<"lookup_failed", "process_caught", "respond">>)
  /\ Respond(r, 200, [received |-> TRUE])
  /\ UNCHANGED failureData

\* ------------------------------------------------------- POST /webhook
\* faulty variant of verificationFailed: the failure is logged but acknowledged
verificationFailedAcknowledged(r, message) ==
  /\ Logged(r, << LogEntry(<<"Webhook signature verification failed: ", message>>,
                           "error") >>)
  /\ Stepped(r, <<"verify_failed", "respond">>)
  /\ Respond(r, 200, [received |-> TRUE])
  /\ UNCHANGED <<event, failureData>>

\* constructEvent throws
verificationFailed(r, message) ==
  /\ Logged(r, << LogEntry(<<"Webhook signature verification failed: ", message>>,
                           "error") >>)
  /\ Stepped(r, <<"verify_failed", "respond">>)
  /\ Respond(r, 400, [text |-> <<"Webhook Error: ", message>>])
  /\ UNCHANGED <<event, failureData>>

\* faulty variant of dispatch: the three failure types share one case
dispatchEveryFailure(r, ev) ==
  IF ev.type # "customer.created"
  THEN processFailedPayment(r,
         [id |-> ev.object.id, customer |-> NULL, amount |-> 1050,
          currency |-> "usd", last_payment_error |-> NULL],
         UnknownCustomer, <<ReceivedEntry(ev.type)>>, <<"verified">>)
  ELSE /\ Logged(r, <<ReceivedEntry(ev.type)>> \o DispatchEntries(ev))
       /\ Stepped(r, <<"verified", "respond">>)
       /\ Respond(r, 200, [received |-> TRUE])
       /\ UNCHANGED failureData

\* the switch on the type of a verified event
dispatch(r, ev) ==
  IF ev.type = "payment_intent.payment_failed"
  THEN IF ev.object.customer # NULL
       THEN \* await stripe.customers.retrieve(...)
            /\ Logged(r, <<ReceivedEntry(ev.type)>>)
            /\ Stepped(r, <<"verified", "lookup_call">>)
            /\ pc' = [pc EXCEPT ![r] = "retrieve"]
            /\ UNCHANGED <<failureData, response>>
       ELSE processFailedPayment(r, ev.object, UnknownCustomer,
                                 <<ReceivedEntry(ev.type)>>, <<"verified">>)
  ELSE /\ Logged(r, <<ReceivedEntry(ev.type)>> \o DispatchEntries(ev))
       /\ Stepped(r, <<"verified", "respond">>)
       /\ Respond(r, 200, [received |-> TRUE])
       /\ UNCHANGED failureData

\* The handler up to its first awaited external call, or to its end when
\* there is none.
Webhook(r) ==
  /\ Arrives(r)
  /\ kind' = [kind EXCEPT ![r] = "webhook"]
  /\ \E sigValid \in BOOLEAN, type \in EventTypes :
       \E object \in ObjectOf(type) :
         IF ~sigValid
         THEN verificationFailed(r, "signature mismatch")
         ELSE /\ event' = [event EXCEPT ![r] = <<[type |-> type, object |-> object]>>]
              /\ dispatch(r, [type |-> type, object |-> object])
  /\ UNCHANGED <<emailSent, airtableRecord, gmailSends, airtableCreates>>

\* stripe.customers.retrieve settles
CustomerRetrieved(r) ==
  /\ pc[r] = "retrieve"
  /\ \/ \E customer \in Customers :
          processFailedPayment(r, event[r][1].object, customer,
                               <<>>, <<"lookup_ok">>)
     \/ lookupFailed(r, "No such customer")
  /\ UNCHANGED <<kind, event, emailSent, airtableRecord, gmailSends,
                 airtableCreates>>

\* -------------------------------------------------------- sendGmailAlert
\* faulty variant of sendGmailAlertReturns: processFailedPayment does not await
\* updateAirtableRecord; it logs and returns, and the event is acknowledged
\* while the create is pending
sendGmailAlertReturnsNoAwait(r, result, entry, step) ==
  /\ Logged(r, << entry,
                  LogEntry(<<"Successfully processed failed payment: ",
                             failureData[r][1].paymentId>>, "info") >>)
  /\ emailSent' = [emailSent EXCEPT ![r] = <<result>>]
  /\ airtableCreates' = [airtableCreates EXCEPT ![r] =
       Append(@, AirtableFields(failureData[r][1]))]
  /\ Stepped(r, <<step, "email_returned", "airtable_call", "respond">>)
  /\ Respond(r, 200, [received |-> TRUE])

\* sendGmailAlert returns result after logging entry; its caller
\* (processFailedPayment or the /test handler) resumes and calls
\* updateAirtableRecord, which awaits base('Failed Payments').create.
sendGmailAlertReturns(r, result, entry, step) ==
  /\ Logged(r, <<entry>>)
  /\ emailSent' = [emailSent EXCEPT ![r] = <<result>>]
  /\ airtableCreates' = [airtableCreates EXCEPT ![r] =
       Append(@, AirtableFields(failureData[r][1]))]
  /\ Stepped(r, <<step, "email_returned", "airtable_call">>)
  /\ pc' = [pc EXCEPT ![r] = "create"]
  /\ UNCHANGED response

\* faulty variant of sendGmailAlertCatch: the error is rethrown to the caller, whose
\* own catch handles it
sendGmailAlertRethrows(r, message) ==
  /\ UNCHANGED <<emailSent, airtableCreates>>
  /\ IF kind[r] = "webhook"
     THEN /\ Logged(r, << LogEntry(<<"Failed to send email alert: ", message>>, "error"),
                          LogEntry(<<"Error processing failed payment: ", message>>,
                                   "error") >>)
          /\ Stepped(r, <<"email_failed", "process_caught", "respond">>)
          /\ Respond(r, 200, [received |-> TRUE])
     ELSE /\ Logged(r, << LogEntry(<<"Failed to send email alert: ", message>>, "error"),
                          LogEntry(<<"Test failed: ", message>>, "error") >>)
          /\ Stepped(r, <<"email_failed", "respond">>)
          /\ Respond(r, 500, [success |-> FALSE, error |-> message])

\* the catch of sendGmailAlert
sendGmailAlertCatch(r, message) ==
  sendGmailAlertReturns(r, FALSE,
    LogEntry(<<"Failed to send email alert: ", message>>, "error"),
    "email_failed")

\* auth.getClient() settles.  With a client the message is rendered and
\* handed to gmail.users.messages.send.
GetClientDone(r) ==
  /\ pc[r] = "getClient"
  /\ \/ /\ gmailSends' = [gmailSends EXCEPT ![r] =
               Append(@, EmailContent(failureData[r][1]))]
        /\ Stepped(r, <<"gmail_send">>)
        /\ pc' = [pc EXCEPT ![r] = "send"]
        /\ UNCHANGED <<recentLogs, appended, reqLogs, emailSent, airtableCreates,
                       response>>
     \/ /\ sendGmailAlertCatch(r, "invalid_grant")
        /\ UNCHANGED gmailSends
  /\ UNCHANGED <<kind, event, failureData, airtableRecord>>

\* gmail.users.messages.send settles
GmailSendDone(r) ==
  /\ pc[r] = "send"
  /\ \/ sendGmailAlertReturns(r, TRUE,
          LogEntry(<<"Email alert sent for payment failure: ",
                     failureData[r][1].paymentId>>, "info"),
          "email_sent")
     \/ sendGmailAlertCatch(r, "Request failed")
  /\ UNCHANGED <<kind, event, failureData, airtableRecord, gmailSends>>

\* --------------------------------------------------- updateAirtableRecord
\* faulty variant of updateAirtableRecordReturns: the /test handler reads
\* airtableRecord.id without the null check, and its catch answers 500
updateAirtableRecordReturnsUnchecked(r, record, entry, step) ==
  /\ airtableRecord' = [airtableRecord EXCEPT ![r] = record]
  /\ Stepped(r, <<step, "airtable_returned", "respond">>)
  /\ IF kind[r] = "webhook"
     THEN /\ Logged(r, << entry,
                          LogEntry(<<"Successfully processed failed payment: ",
                                     failureData[r][1].paymentId>>, "info") >>)
          /\ Respond(r, 200, [received |-> TRUE])
     ELSE IF record = <<>>
          THEN /\ Logged(r, << entry,
                               LogEntry(<<"Test failed: ",
                                          "Cannot read properties of null">>,
                                        "error") >>)
               /\ Respond(r, 500,
                    [success |-> FALSE, error |-> "Cannot read properties of null"])
          ELSE /\ Logged(r, <<entry>>)
               /\ Respond(r, 200,
                    [success |-> TRUE,
                     message |-> "Test completed",
                     results |-> [emailSent |-> emailSent[r][1],
                                  airtableRecord |-> record[1].id]])

\* updateAirtableRecord returns record (<<>> for null) after logging entry;
\* its caller resumes.  processFailedPayment logs and returns, and the
\* /webhook handler acknowledges; the /test handler answers with the two
\* results.
updateAirtableRecordReturns(r, record, entry, step) ==
  /\ airtableRecord' = [airtableRecord EXCEPT ![r] = record]
  /\ Stepped(r, <<step, "airtable_returned", "respond">>)
  /\ IF kind[r] = "webhook"
     THEN /\ Logged(r, << entry,
                          LogEntry(<<"Successfully processed failed payment: ",
                                     failureData[r][1].paymentId>>, "info") >>)
          /\ Respond(r, 200, [received |-> TRUE])
     ELSE /\ Logged(r, <<entry>>)
          /\ Respond(r, 200,
               [success |-> TRUE,
                message |-> "Test completed",
                results |->
                  [emailSent |-> emailSent[r][1],
                   airtableRecord |->
                     IF record # <<>> THEN record[1].id ELSE NULL]])

\* base('Failed Payments').create settles
AirtableCreateDone(r) ==
  /\ pc[r] = "create"
  /\ \/ \E record \in {[id |-> "rec_1"]} :
          updateAirtableRecordReturns(r, <<record>>,
            LogEntry(<<"Created Airtable record for failed payment: ",
                       record.id>>, "info"),
            "airtable_created")
     \/ updateAirtableRecordReturns(r, <<>>,
          LogEntry(<<"Failed to create Airtable record: ", "NOT_FOUND">>, "error"),
          "airtable_failed")
  /\ UNCHANGED <<kind, event, failureData, emailSent, gmailSends,
                 airtableCreates>>

\* ----------------------------------------------------------- POST /test
\* The handler up to the await inside sendGmailAlert.  Nothing inside its
\* try block throws (both sinks catch their own errors), so its catch
\* branch is never entered.
Test(r) ==
  /\ Arrives(r)
  /\ kind' = [kind EXCEPT ![r] = "test"]
  /\ Logged(r, << LogEntry(<<"Manual test initiated">>, "info") >>)
  /\ failureData' = [failureData EXCEPT ![r] = <<TestData>>]
  /\ Stepped(r, <<"email_call">>)
  /\ pc' = [pc EXCEPT ![r] = "getClient"]
  /\ UNCHANGED <<event, emailSent, airtableRecord, response, gmailSends,
                 airtableCreates>>

Next ==
  \E r \in Requests :
    \/ Webhook(r)
    \/ CustomerRetrieved(r)
    \/ GetClientDone(r)
    \/ GmailSendDone(r)
    \/ AirtableCreateDone(r)
    \/ Test(r)

Spec == Init /\ [][Next]_vars

\* ================================================================ claims
Has(seq, x) ==
  \E i \in DOMAIN seq : seq[i] = x

Count(seq, x) ==
  Cardinality({i \in DOMAIN seq : seq[i] = x})

\* index of the first x in seq, 0 when there is none
Pos(seq, x) ==
  IF Has(seq, x)
  THEN CHOOSE i \in DOMAIN seq : seq[i] = x /\ \A j \in 1..(i - 1) : seq[j] # x
  ELSE 0

Min(a, b) ==
  IF a < b THEN a ELSE b

\* the log entry interpolates the string s
Names(entry, s) ==
  \E i \in 2..Len(entry.message) : entry.message[i] = s

NamingCount(r, s) ==
  Cardinality({i \in DOMAIN reqLogs[r] : Names(reqLogs[r][i], s)})

Verified(r) ==
  kind[r] = "webhook" /\ event[r] # <<>>

Rejected(r) ==
  kind[r] = "webhook" /\ Has(trace[r], "verify_failed")

FailedIntent(r) ==
  Verified(r) /\ event[r][1].type = "payment_intent.payment_failed"

Acknowledged(r) ==
  /\ response[r] # <<>>
  /\ response[r][1].status = 200
  /\ response[r][1].body = [received |-> TRUE]

HandledTypes ==
  {"payment_intent.payment_failed", "charge.failed", "invoice.payment_failed"}

\* C1: every verified /webhook request is answered 200 {received:true}, for
\* every event type and every outcome of the lookup, the email send and the
\* record-store write; no other response is ever sent for it.
C1_VerifiedAcknowledged ==
  \A r \in Requests :
    Verified(r) =>
      /\ response[r] # <<>> => Acknowledged(r)
      /\ pc[r] = "done" => Acknowledged(r)

C1_Witness ==
  \E r, q \in Requests :
    /\ FailedIntent(r) /\ Has(trace[r], "email_failed")
    /\ Has(trace[r], "airtable_failed") /\ Acknowledged(r)
    /\ FailedIntent(q) /\ Has(trace[q], "lookup_failed") /\ Acknowledged(q)

\* C2: a /webhook request whose signature verification fails is answered
\* 400, logs exactly one error entry and stops: no failure record, no lookup,
\* no sink call, no entry naming an event type, never {received:true}.
C2_RejectedStops ==
  \A r \in Requests :
    Rejected(r) =>
      /\ pc[r] = "done"
      /\ response[r] # <<>> /\ response[r][1].status = 400
      /\ ~Acknowledged(r)
      /\ Len(reqLogs[r]) = 1
      /\ reqLogs[r][1].type = "error"
      /\ reqLogs[r][1].message[1] = "Webhook signature verification failed: "
      /\ \A t \in EventTypes : NamingCount(r, t) = 0
      /\ event[r] = <<>> /\ failureData[r] = <<>>
      /\ gmailSends[r] = <<>> /\ airtableCreates[r] = <<>>
      /\ \A step \in {"verified", "lookup_call", "record_built", "email_call",
                      "gmail_send", "airtable_call"} : ~Has(trace[r], step)

C2_Witness ==
  \E r, q \in Requests :
    /\ Rejected(r) /\ pc[r] = "done"
    /\ FailedIntent(q) /\ pc[q] = "done" /\ airtableCreates[q] # <<>>

\* C3: when the email send of a verified failed payment intent fails,
\* sendGmailAlert returns false and logs an error entry, the record-store
\* create is still issued once for the same failure record, the catch of
\* processFailedPayment is not entered, and the event is acknowledged.
C3_EmailFailureIsolated ==
  \A r \in Requests :
    (FailedIntent(r) /\ Has(trace[r], "email_failed")) =>
      /\ emailSent[r] = <<FALSE>>
      /\ \E i \in DOMAIN reqLogs[r] :
           /\ reqLogs[r][i].type = "error"
           /\ reqLogs[r][i].message[1] = "Failed to send email alert: "
      /\ airtableCreates[r] = <<AirtableFields(failureData[r][1])>>
      /\ ~Has(trace[r], "process_caught")
      /\ pc[r] \in {"create", "done"}
      /\ pc[r] = "done" => Acknowledged(r) /\ Has(trace[r], "airtable_returned")

C3_Witness ==
  \E r \in Requests :
    /\ FailedIntent(r) /\ Has(trace[r], "email_failed")
    /\ Has(trace[r], "airtable_created") /\ Acknowledged(r)

\* C4: when the customer lookup of a verified failed payment intent fails,
\* the failure record is built as for an absent customer reference and both
\* sinks are still called.
C4_LookupFailureFallsBack ==
  \A r \in Requests :
    (FailedIntent(r) /\ Has(trace[r], "lookup_failed") /\ pc[r] = "done") =>
      /\ failureData[r] = <<BuildFailureData(event[r][1].object, UnknownCustomer)>>
      /\ Has(trace[r], "email_call")
      /\ Len(airtableCreates[r]) = 1

\* C5: among verified events only failed payment intents cause a customer
\* lookup or a sink call; every other type appends its two log entries (the
\* unhandled types at warning severity) and is acknowledged at once.
C5_DispatchPolicy ==
  \A r \in Requests :
    /\ (Verified(r) /\ event[r][1].type # "payment_intent.payment_failed") =>
         /\ failureData[r] = <<>> /\ emailSent[r] = <<>> /\ airtableRecord[r] = <<>>
         /\ gmailSends[r] = <<>> /\ airtableCreates[r] = <<>>
         /\ \A step \in {"lookup_call", "record_built", "email_call",
                         "gmail_send", "airtable_call"} : ~Has(trace[r], step)
         /\ Len(reqLogs[r]) = 2
         /\ event[r][1].type \notin HandledTypes => reqLogs[r][2].type = "warning"
         /\ pc[r] = "done"
    /\ (kind[r] = "webhook" /\ (\/ Has(trace[r], "lookup_call")
                                \/ Has(trace[r], "email_call")
                                \/ gmailSends[r] # <<>>
                                \/ airtableCreates[r] # <<>>)) => FailedIntent(r)

C5_Witness ==
  \E r, q \in Requests :
    /\ Verified(r) /\ event[r][1].type = "charge.failed" /\ pc[r] = "done"
    /\ Verified(q) /\ event[q][1].type = "customer.created" /\ pc[q] = "done"

\* C6: the activity log holds exactly the min(n, 50) most recently appended
\* entries, newest first, also when the appends of several requests
\* interleave.
C6_LogIsNewestFifty ==
  LET n == Len(appended)
      m == Min(n, MaxLogs)
  IN  /\ Len(recentLogs) = m
      /\ Len(recentLogs) <= 50
      /\ \A i \in 1..m : recentLogs[i] = appended[n - i + 1]

\* more than 50 appends, the last ones by two requests that are both in
\* flight and have both appended
C6_Witness ==
  /\ Len(appended) > MaxLogs
  /\ \E r, q \in Requests :
       /\ r # q
       /\ pc[r] \notin {"idle", "done"} /\ pc[q] \notin {"idle", "done"}
       /\ Len(reqLogs[r]) >= 2 /\ Len(reqLogs[q]) >= 2
       /\ recentLogs[1] = reqLogs[r][Len(reqLogs[r])]
       /\ recentLogs[2] = reqLogs[q][Len(reqLogs[q])]
       /\ recentLogs[3] = reqLogs[r][Len(reqLogs[r]) - 1]

\* C7 as stated: handling a verified event appends exactly one entry that
\* names the event's type.
C7_TypeNamedOnce ==
  \A r \in Requests :
    (Verified(r) /\ pc[r] = "done") => NamingCount(r, event[r][1].type) = 1

\* C7 amended: handling a verified event appends exactly one "Received
\* webhook event" entry with its type, first; it is the only entry naming
\* the type for the three handled types, and an unhandled type is named once
\* more by the warning entry.
C7_ReceivedOnce ==
  \A r \in Requests :
    Verified(r) =>
      LET type == event[r][1].type
      IN  /\ reqLogs[r][1] = LogEntry(<<"Received webhook event: ", type>>, "info")
          /\ Count(reqLogs[r], reqLogs[r][1]) = 1
          /\ NamingCount(r, type) = IF type \in HandledTypes THEN 1 ELSE 2
          /\ type \notin HandledTypes =>
               /\ Names(reqLogs[r][2], type)
               /\ reqLogs[r][2].type = "warning"

C7_Witness ==
  \E r, q \in Requests :
    /\ Verified(r) /\ event[r][1].type = "customer.created" /\ pc[r] = "done"
    /\ Verified(q) /\ event[q][1].type = "charge.failed" /\ pc[q] = "done"
    /\ NamingCount(r, "customer.created") = 2

\* C8: for each verified failed payment intent the email send and the
\* record-store create are each attempted exactly once.
C8_EachSinkExactlyOnce ==
  \A r \in Requests :
    (FailedIntent(r) /\ pc[r] = "done") =>
      /\ Count(trace[r], "email_call") = 1
      /\ Len(airtableCreates[r]) = 1
      /\ Count(trace[r], "airtable_call") = 1

\* C9: /test verifies no signature and looks up no customer, calls the
\* email sink and then the record-store sink once each whatever the first
\* returned, and answers 200 {success:true} with emailSent true exactly when
\* the send succeeded and airtableRecord the created id or null.
C9_TestReportsSinks ==
  \A r \in Requests :
    kind[r] = "test" =>
      /\ event[r] = <<>>
      /\ \A step \in {"verified", "verify_failed", "lookup_call"} :
           ~Has(trace[r], step)
      /\ failureData[r] = <<TestData>>
      /\ Count(trace[r], "email_call") = 1
      /\ Has(trace[r], "email_returned") =>
           /\ airtableCreates[r] = <<AirtableFields(TestData)>>
           /\ Pos(trace[r], "email_returned") < Pos(trace[r], "airtable_call")
      /\ response[r] # <<>> =>
           /\ pc[r] = "done"
           /\ response[r][1].status = 200
           /\ response[r][1].body.success = TRUE
           /\ response[r][1].body.results.emailSent = Has(trace[r], "email_sent")
           /\ response[r][1].body.results.airtableRecord =
                IF Has(trace[r], "airtable_created") THEN "rec_1" ELSE NULL
           /\ Len(gmailSends[r]) <= 1
           /\ Len(airtableCreates[r]) = 1
      /\ pc[r] = "done" => response[r] # <<>>

C9_Witness ==
  \E r, q \in Requests :
    /\ kind[r] = "test" /\ pc[r] = "done"
    /\ Has(trace[r], "email_failed") /\ Has(trace[r], "airtable_failed")
    /\ kind[q] = "test" /\ pc[q] = "done"
    /\ Has(trace[q], "email_sent") /\ Has(trace[q], "airtable_created")

====
